---- MODULE Spec2Model ----
(***************************************************************************)
(* Generic CRUD route generation over an async ORM session                 *)
(* (deerlord/crudapi).  Two packages of the repository define an           *)
(* AsyncCRUDRouter: src/crudapi/router.py and src/application/router.py.   *)
(* The model follows the start-up loop that constructs one Route Group per *)
(* data model, and then the traffic of one of those Route Groups: requests *)
(* are cooperative tasks that suspend at every awaited database call.      *)
(*                                                                         *)
(* The session object is SQLAlchemy's AsyncSession handed out by           *)
(* dblib.database.connection(): objects added, changed or deleted through  *)
(* it reach the table at commit(); what is uncommitted when the            *)
(* `async with` block of AsyncCRUDRouter.database ends is discarded.       *)
(*                                                                         *)
(* crudapi/router.py is read with its names resolved the way               *)
(* application/router.py resolves them: typing.List imported, and self.db  *)
(* the connection factory that the commented-out constructor call passes   *)
(* as db=database.connection.                                              *)
(***************************************************************************)
EXTENDS Integers, Sequences, FiniteSets, TLC

\* ---------------------------------------------------------------- bounds
MaxRouters == 2
MaxRows == 2
MaxPage == 3

\* ------------------------------------------------------- program constants
\* AsyncCRUDRouter.exclude as the class body sets it
ManagedFields == {"created_at", "updated_at", "id"}

pk_field == "uuid"

\* the fields of a data model (dblib's models: a uuid key, audit stamps, data)
ModelFields == {"uuid", "name", "created_at", "updated_at"}

Packages == {"crudapi", "application"}

PKs == 1..MaxRows
Names == {"Ada", "Lovelace"}
Stamps == {"t0"}
\* the request tasks that can be in flight at once
Reqs == {1, 2}

\* sql_model.__name__ of the k-th registered data model, as characters
ModelName(k) ==
    IF k % 2 = 1 THEN <<"U", "s", "e", "r">> ELSE <<"A", "p", "i", "K", "e", "y">>

\* ------------------------------------------------------------- pure helpers
\* str.lower() on one character
LowerChar(c) ==
    CASE c = "U" -> "u"
      [] c = "A" -> "a"
      [] c = "K" -> "k"
      [] OTHER -> c

Lower(s) == [i \in 1..Len(s) |-> LowerChar(s[i])]

NotFoundSuffix == <<" ", "n", "o", "t", " ", "f", "o", "u", "n", "d">>

\* the detail built without .lower()
not_found_detail_cased(name) == name \o NotFoundSuffix

\* f"{self.sql_model.__name__.lower()} not found"
not_found_detail(name) == Lower(name) \o NotFoundSuffix

\* _schema_factory: the model's fields that are not in `exclude`
schema_factory(fields, excl) == {f \in fields : f \notin excl}

\* self.schema(**row.dict()): a new object holding the schema's fields only
Project(row, fields) == [f \in (DOMAIN row) \cap fields |-> row[f]]

\* Optional[int]: {} is None, {n} is the integer n
None == {}
Some(n) == {n}
Val(o) == CHOOSE n \in o : TRUE

\* create_query_validation_exception: HTTPException(422, detail=...)
create_query_validation_exception(fld, msg) ==
    [status |-> 422,
     detail |-> [loc |-> <<"query", fld>>, msg |-> msg, type |-> "type_error.integer"]]

\* a validator that cuts a limit above the ceiling down to the ceiling
pagination_clamped(query, max_limit) ==
    LET skip == IF query.skip = None THEN 0 ELSE Val(query.skip)
        limit == IF query.limit = None THEN max_limit ELSE query.limit
    IN  IF skip < 0
        THEN create_query_validation_exception("skip",
                 <<"skip query parameter must be greater or equal to zero">>)
        ELSE IF limit # None /\ Val(limit) <= 0
        THEN create_query_validation_exception("limit",
                 <<"limit query parameter must be greater then zero">>)
        ELSE IF limit # None /\ max_limit # None /\ Val(max_limit) < Val(limit)
        THEN [status |-> 200, value |-> [skip |-> skip, limit |-> max_limit]]
        ELSE [status |-> 200, value |-> [skip |-> skip, limit |-> limit]]

\* the dependency built by pagination_factory(max_limit); a query parameter
\* that is absent ({}) takes its default: skip 0, limit max_limit
pagination(query, max_limit) ==
    LET skip == IF query.skip = None THEN 0 ELSE Val(query.skip)
        limit == IF query.limit = None THEN max_limit ELSE query.limit
    IN  IF skip < 0
        THEN create_query_validation_exception("skip",
                 <<"skip query parameter must be greater or equal to zero">>)
        ELSE IF limit # None /\ Val(limit) <= 0
        THEN create_query_validation_exception("limit",
                 <<"limit query parameter must be greater then zero">>)
        ELSE IF limit # None /\ max_limit # None /\ Val(max_limit) # 0
                /\ Val(max_limit) < Val(limit)
        THEN create_query_validation_exception("limit",
                 <<"limit query parameter must be less then", Val(max_limit)>>)
        ELSE [status |-> 200, value |-> [skip |-> skip, limit |-> limit]]

\* ------------------------------------------------------------------ state
VARIABLES
    package,   \* which package's application is running
    exclude,   \* the class attribute AsyncCRUDRouter.exclude (shared by instances)
    routers,   \* the Route Groups constructed so far, in order
    target,    \* the Route Group whose traffic is followed; 0 while starting up
    table,     \* committed rows of the target's table: primary key -> row
    req,       \* the request tasks
    open,      \* tasks holding an open session
    pending,   \* per session: changes not committed yet
    page_in,   \* a call of the pagination dependency: its arguments
    page_out   \* ... and what it returned or raised

vars == <<package, exclude, routers, target, table, req, open, pending, page_in, page_out>>

app == <<package, exclude, routers, target, table, req, open, pending>>
page == <<page_in, page_out>>

NoRec == <<>>

IdleReq ==
    [op |-> "none", pc |-> "idle", pk |-> 0, payload |-> NoRec, skip |-> 0,
     limit |-> None, obj |-> NoRec, attached |-> FALSE, status |-> 0, body |-> NoRec]

NoCall == [status |-> 0]

Init ==
    /\ package \in Packages
    /\ exclude = ManagedFields
    /\ routers = <<>>
    /\ target = 0
    /\ table = <<>>
    /\ req = [q \in Reqs |-> IdleReq]
    /\ open = {}
    /\ pending = [q \in Reqs |-> {}]
    /\ page_in = NoCall
    /\ page_out = NoCall

\* -------------------------------------------------------------- start-up
\* AsyncCRUDRouter.__init__ of crudapi: the three derived schemas and the
\* exclusion set it leaves behind
crudapi_init(name, excl) ==
    LET schema == schema_factory(ModelFields, excl)
        excl2 == excl \cup {pk_field}
    IN  [router |-> [name |-> name,
                     schema |-> schema,
                     create_schema |-> schema_factory(ModelFields, excl2),
                     update_schema |-> schema_factory(ModelFields, excl2)],
         exclude |-> excl2]

\* AsyncCRUDRouter.__init__ of application: schema=sql_model, the create and
\* update schemas are the model without its primary key
application_init(name, excl) ==
    [router |-> [name |-> name,
                 schema |-> ModelFields,
                 create_schema |-> ModelFields \ {pk_field},
                 update_schema |-> ModelFields \ {pk_field}],
     exclude |-> excl]

\* one turn of crudrouter()'s loop: model_router = AsyncCRUDRouter(sql_model=model)
Construct ==
    /\ target = 0
    /\ Len(routers) < MaxRouters
    /\ LET name == ModelName(Len(routers) + 1)
           made == IF package = "crudapi" THEN crudapi_init(name, exclude)
                   ELSE application_init(name, exclude)
       IN  /\ routers' = Append(routers, made.router)
           /\ exclude' = made.exclude
    /\ UNCHANGED <<package, target, table, req, open, pending, page>>

\* crudrouter() has gone through every registered data model and the
\* application starts serving; the traffic of Route Group t is followed: the
\* first one constructed or the last one
Serve(t) ==
    /\ target = 0
    /\ Len(routers) = MaxRouters
    /\ t \in {1, Len(routers)}
    /\ target' = t
    /\ UNCHANGED <<package, exclude, routers, table, req, open, pending, page>>

Router == routers[target]

\* ------------------------------------------------------ session and table
\* setattr(db_model, key, value) for every key the object has
Merge(obj, vals) == [f \in DOMAIN obj |-> IF f \in DOMAIN vals THEN vals[f] ELSE obj[f]]

Change(kind, pk, vals) == [kind |-> kind, pk |-> pk, vals |-> vals]

Kind(changes, kind) == {c \in changes : c.kind = kind}

\* a flush that writes a changed row as one more row instead of over the old one
Apply_appending(tbl, changes) ==
    LET dels == {c.pk : c \in Kind(changes, "delete")}
        ins == Kind(changes, "insert") \cup
               {Change("insert", c.pk + Cardinality(DOMAIN tbl),
                       Merge(tbl[c.pk], c.vals)) :
                    c \in {u \in Kind(changes, "update") : u.pk \in DOMAIN tbl}}
        keys == ((DOMAIN tbl) \ dels) \cup {c.pk : c \in ins}
    IN  [k \in keys |->
            IF \E c \in ins : c.pk = k THEN (CHOOSE c \in ins : c.pk = k).vals
            ELSE tbl[k]]

\* the table with a session's changes written to it (flush)
Apply(tbl, changes) ==
    LET dels == {c.pk : c \in Kind(changes, "delete")}
        ins == Kind(changes, "insert")
        upd == Kind(changes, "update")
        keys == ((DOMAIN tbl) \ dels) \cup {c.pk : c \in ins}
    IN  [k \in keys |->
            IF \E c \in ins : c.pk = k THEN (CHOOSE c \in ins : c.pk = k).vals
            ELSE IF \E c \in upd : c.pk = k
                 THEN Merge(tbl[k], (CHOOSE c \in upd : c.pk = k).vals)
                 ELSE tbl[k]]

\* what a statement executed in session q reads: the committed table with
\* the session's own changes flushed
View(q) == Apply(table, pending[q])

\* async with self.db() as db: entering
Acquire(q) == open \cup {q}

\* a teardown that never closes the session
Release_leaking(q) == [open |-> open, pending |-> pending]

\* async with self.db() as db: leaving; the session is closed and what it
\* did not commit is discarded
Release(q) == [open |-> open \ {q}, pending |-> [pending EXCEPT ![q] = {}]]

RECURSIVE SortedPks(_)
\* order_by(pk_field): the keys in ascending order
SortedPks(S) ==
    IF S = {} THEN <<>>
    ELSE LET m == CHOOSE x \in S : \A y \in S : x <= y
         IN  <<m>> \o SortedPks(S \ {m})

\* the statement read in the order it is written, limit(limit) before
\* offset(skip): the first limit rows are kept and then skip of them dropped
get_all_limit_first(view, fields, skip, limit) ==
    LET keys == SortedPks(DOMAIN view)
        n == Len(keys)
        last == IF limit = None THEN n
                ELSE IF Val(limit) < n THEN Val(limit) ELSE n
        shown == IF skip + 1 > last THEN <<>> ELSE SubSeq(keys, skip + 1, last)
    IN  [i \in 1..Len(shown) |-> Project(view[shown[i]], fields)]

\* select(...).order_by(pk).limit(limit).offset(skip), each row through self.schema
get_all(view, fields, skip, limit) ==
    LET keys == SortedPks(DOMAIN view)
        n == Len(keys)
        last == IF limit = None THEN n
                ELSE IF skip + Val(limit) < n THEN skip + Val(limit) ELSE n
        shown == IF skip + 1 > last THEN <<>> ELSE SubSeq(keys, skip + 1, last)
    IN  [i \in 1..Len(shown) |-> Project(view[shown[i]], fields)]

\* the route of _get_one called with a session: crudapi returns a new
\* self.schema object built from the row, application returns the row itself
get_one(view, uuid) ==
    IF uuid \in DOMAIN view
    THEN [status |-> 200,
          attached |-> (package = "application"),
          obj |-> IF package = "crudapi" THEN Project(view[uuid], Router.schema)
                  ELSE view[uuid]]
    ELSE [status |-> 404, attached |-> FALSE, obj |-> not_found_detail(Router.name)]

\* exceptions that are no HTTPException reach the client as a 500; the body
\* recorded here is the exception raised
UnmappedInstanceError == "UnmappedInstanceError"
InvalidRequestError == "InvalidRequestError"
OperationalError == "OperationalError"

Return(q, status, body) == [req[q] EXCEPT !.pc = "returned", !.status = status, !.body = body]

\* -------------------------------------------------------------- requests
\* the query strings sent to GET ""
Queries ==
    {[skip |-> s, limit |-> l] :
        s \in {None} \cup {Some(n) : n \in {-1, 0, 1}},
        l \in {None} \cup {Some(n) : n \in {0, 1, 2}}}

Payloads(fields) ==
    {[f \in fields |-> IF f = "name" THEN n ELSE IF f = pk_field THEN u ELSE st] :
        n \in Names, u \in PKs, st \in Stamps}

UsedPks == (DOMAIN table) \cup {c.pk : c \in Kind(UNION {pending[q] : q \in Reqs}, "insert")}

Creating == {q \in Reqs : req[q].op = "create" /\ req[q].pc = "entered"}

\* GET "": the pagination dependency runs first; only a valid query reaches
\* the session dependency
BeginList(q, query) ==
    /\ target # 0 /\ req[q].pc = "idle"
    /\ LET p == pagination(query, None)
       IN  IF p.status = 200
           THEN /\ req' = [req EXCEPT ![q] = [IdleReq EXCEPT !.op = "list", !.pc = "entered",
                                       !.skip = p.value.skip, !.limit = p.value.limit]]
                /\ open' = Acquire(q)
           ELSE /\ req' = [req EXCEPT ![q] = [IdleReq EXCEPT !.op = "list", !.pc = "returned",
                                       !.status = p.status, !.body = p.detail]]
                /\ open' = open
    /\ UNCHANGED <<package, exclude, routers, target, table, pending, page>>

Begin(q, op, uuid, payload) ==
    /\ target # 0 /\ req[q].pc = "idle"
    /\ req' = [req EXCEPT ![q] = [IdleReq EXCEPT !.op = op, !.pc = "entered",
                                  !.pk = uuid, !.payload = payload]]
    /\ open' = Acquire(q)
    /\ UNCHANGED <<package, exclude, routers, target, table, pending, page>>

BeginCreate(q) ==
    /\ target # 0
    /\ Cardinality(UsedPks) + Cardinality(Creating) < MaxRows
    /\ \E payload \in Payloads(Router.create_schema) : Begin(q, "create", 0, payload)

BeginDeleteAll(q) == Begin(q, "delete_all", 0, NoRec)

BeginGetOne(q, uuid) == Begin(q, "get_one", uuid, NoRec)

BeginUpdate(q, uuid) ==
    /\ target # 0
    /\ \E payload \in Payloads(Router.update_schema) : Begin(q, "update", uuid, payload)

BeginDeleteOne(q, uuid) == Begin(q, "delete_one", uuid, NoRec)

\* _get_all.route
RunList(q) ==
    /\ req[q].pc = "entered" /\ req[q].op = "list"
    /\ req' = [req EXCEPT ![q] =
                 Return(q, 200, get_all(View(q), Router.schema, req[q].skip, req[q].limit))]
    /\ UNCHANGED <<package, exclude, routers, target, table, open, pending, page>>

\* _get_one.route as an endpoint
RunGetOne(q) ==
    /\ req[q].pc = "entered" /\ req[q].op = "get_one"
    /\ LET r == get_one(View(q), req[q].pk)
       IN  req' = [req EXCEPT ![q] =
                     Return(q, r.status,
                            IF r.status = 200 THEN Project(r.obj, Router.schema) ELSE r.obj)]
    /\ UNCHANGED <<package, exclude, routers, target, table, open, pending, page>>

\* self.sql_model(**model.dict()): the payload plus the model's defaults
new_row(u, payload) ==
    [f \in ModelFields |->
        IF f \in DOMAIN payload THEN payload[f]
        ELSE IF f = pk_field THEN u
        ELSE IF f = "name" THEN "Ada" ELSE "t0"]

\* _create.route up to its commit: db_model built, db.add(db_model)
CreateAdd(q, u) ==
    /\ req[q].pc = "entered" /\ req[q].op = "create"
    /\ u \in PKs \ UsedPks
    /\ LET row == new_row(u, req[q].payload)
       IN  /\ req' = [req EXCEPT ![q].pc = "commit", ![q].pk = row[pk_field],
                                 ![q].obj = row, ![q].attached = TRUE]
           /\ pending' = [pending EXCEPT ![q] = {Change("insert", row[pk_field], row)}]
    /\ UNCHANGED <<package, exclude, routers, target, table, open, page>>

\* the fields _update.route assigns: model.dict(exclude={pk_field}), where the
\* fetched object has the attribute
assigned(obj, payload) ==
    [f \in ((DOMAIN payload) \ {pk_field}) \cap DOMAIN obj |-> payload[f]]

\* _update.route up to its commit: get_one, then the setattr loop
UpdateFetch(q) ==
    /\ req[q].pc = "entered" /\ req[q].op = "update"
    /\ LET r == get_one(View(q), req[q].pk)
       IN  IF r.status # 200
           THEN /\ req' = [req EXCEPT ![q] = Return(q, r.status, r.obj)]
                /\ pending' = pending
           ELSE LET vals == assigned(r.obj, req[q].payload)
                IN  /\ req' = [req EXCEPT ![q].pc = "commit", ![q].obj = Merge(r.obj, vals),
                                          ![q].attached = r.attached]
                    /\ pending' = [pending EXCEPT ![q] =
                                     IF r.attached THEN {Change("update", req[q].pk, vals)}
                                     ELSE {}]
    /\ UNCHANGED <<package, exclude, routers, target, table, open, page>>

\* the stored table after _update.route has run alone from its fetch to its
\* commit
update_effect(tbl, uuid, payload) ==
    LET r == get_one(tbl, uuid)
    IN  IF r.status = 200 /\ r.attached
        THEN Apply(tbl, {Change("update", uuid, assigned(r.obj, payload))})
        ELSE tbl

\* await db.commit()
Commit(q) ==
    /\ req[q].pc = "commit"
    /\ table' = Apply(table, pending[q])
    /\ pending' = [pending EXCEPT ![q] = {}]
    /\ req' = [req EXCEPT ![q].pc = "refresh"]
    /\ UNCHANGED <<package, exclude, routers, target, open, page>>

\* await db.commit() raising: the storage rejects the write
CommitFails(q) ==
    /\ req[q].pc = "commit"
    /\ req' = [req EXCEPT ![q] = Return(q, 500, OperationalError)]
    /\ UNCHANGED <<package, exclude, routers, target, table, open, pending, page>>

\* await db.refresh(db_model), then the response; refresh takes a mapped
\* instance of the session and raises on anything else
Refresh(q) ==
    /\ req[q].pc = "refresh"
    /\ req' = [req EXCEPT ![q] =
                 IF ~req[q].attached THEN Return(q, 500, UnmappedInstanceError)
                 ELSE IF req[q].pk \notin DOMAIN View(q)
                 THEN Return(q, 500, InvalidRequestError)
                 ELSE Return(q, 200, Project(View(q)[req[q].pk], Router.schema))]
    /\ UNCHANGED <<package, exclude, routers, target, table, open, pending, page>>

\* _delete_one.route: get_one, db.delete(one), the response; delete takes a
\* mapped instance of the session and raises on anything else
RunDeleteOne(q) ==
    /\ req[q].pc = "entered" /\ req[q].op = "delete_one"
    /\ LET r == get_one(View(q), req[q].pk)
       IN  IF r.status # 200
           THEN /\ req' = [req EXCEPT ![q] = Return(q, r.status, r.obj)]
                /\ pending' = pending
           ELSE IF r.attached
           THEN /\ req' = [req EXCEPT ![q] = Return(q, 200, Project(r.obj, Router.schema))]
                /\ pending' = [pending EXCEPT ![q] = {Change("delete", req[q].pk, NoRec)}]
           ELSE /\ req' = [req EXCEPT ![q] = Return(q, 500, UnmappedInstanceError)]
                /\ pending' = pending
    /\ UNCHANGED <<package, exclude, routers, target, table, open, page>>

\* _delete_all.route, first half: select every row, db.delete(result) for each
DeleteAllMark(q) ==
    /\ req[q].pc = "entered" /\ req[q].op = "delete_all"
    /\ pending' = [pending EXCEPT ![q] = {Change("delete", k, NoRec) : k \in DOMAIN View(q)}]
    /\ req' = [req EXCEPT ![q].pc = "remaining"]
    /\ UNCHANGED <<package, exclude, routers, target, table, open, page>>

\* _delete_all.route, second half: get_remaining({"skip": 0, "limit": None}, db)
DeleteAllRemaining(q) ==
    /\ req[q].pc = "remaining"
    /\ req' = [req EXCEPT ![q] = Return(q, 200, get_all(View(q), Router.schema, 0, None))]
    /\ UNCHANGED <<package, exclude, routers, target, table, open, pending, page>>

\* the route has returned or raised: the session dependency is torn down
Exit(q) ==
    /\ req[q].pc = "returned"
    /\ open' = Release(q).open
    /\ pending' = Release(q).pending
    /\ req' = [req EXCEPT ![q] = IdleReq]
    /\ UNCHANGED <<package, exclude, routers, target, table, page>>

\* the caller disconnects while the route is suspended in an await
Cancel(q) ==
    /\ req[q].pc \in {"entered", "commit", "refresh", "remaining"}
    /\ open' = Release(q).open
    /\ pending' = Release(q).pending
    /\ req' = [req EXCEPT ![q] = IdleReq]
    /\ UNCHANGED <<package, exclude, routers, target, table, page>>

\* the steps of request task q
Step(q) ==
    \/ \E query \in Queries : BeginList(q, query)
    \/ BeginCreate(q)
    \/ BeginDeleteAll(q)
    \/ \E uuid \in PKs : BeginGetOne(q, uuid)
    \/ \E uuid \in PKs : BeginUpdate(q, uuid)
    \/ \E uuid \in PKs : BeginDeleteOne(q, uuid)
    \/ RunList(q)
    \/ RunGetOne(q)
    \/ \E u \in PKs : CreateAdd(q, u)
    \/ UpdateFetch(q)
    \/ Commit(q)
    \/ CommitFails(q)
    \/ Refresh(q)
    \/ RunDeleteOne(q)
    \/ DeleteAllMark(q)
    \/ DeleteAllRemaining(q)
    \/ Exit(q)
    \/ Cancel(q)

\* requests in flight at once
Next ==
    \/ Construct
    \/ \E t \in 1..MaxRouters : Serve(t)
    \/ \E q \in Reqs : Step(q)

Spec == Init /\ [][Next]_vars

\* one request at a time
NextSeq ==
    \/ Construct
    \/ \E t \in 1..MaxRouters : Serve(t)
    \/ Step(1)

SpecSeq == Init /\ [][NextSeq]_vars

\* ------------------------------------------------- the pagination dependency
\* calls of the dependency: every query string over a small range, under no
\* ceiling or a positive one
PageInputs ==
    {[query |-> [skip |-> s, limit |-> l], max_limit |-> m] :
        s \in {None} \cup {Some(n) : n \in -MaxPage..MaxPage},
        l \in {None} \cup {Some(n) : n \in -MaxPage..MaxPage},
        m \in {None} \cup {Some(n) : n \in 1..MaxPage}}

InitPage ==
    /\ package = "crudapi"
    /\ exclude = ManagedFields
    /\ routers = <<>>
    /\ target = 0
    /\ table = <<>>
    /\ req = [q \in Reqs |-> IdleReq]
    /\ open = {}
    /\ pending = [q \in Reqs |-> {}]
    /\ page_in \in PageInputs
    /\ page_out = NoCall

\* FastAPI resolves Depends(pagination) for the request
Paginate ==
    /\ page_out = NoCall
    /\ page_out' = pagination(page_in.query, page_in.max_limit)
    /\ UNCHANGED <<app, page_in>>

SpecPage == InitPage /\ [][Paginate]_vars

\* ------------------------------------------------------------------ claims
\* what a Get One sent in a new request answers for key uuid
LaterGetOne(tbl, uuid) ==
    LET r == get_one(tbl, uuid)
    IN  [status |-> r.status,
         body |-> IF r.status = 200 THEN Project(r.obj, Router.schema) ELSE r.obj]

\* C1: every Route Group that crudapi constructs, however many were
\* constructed before it, has a read schema that excludes exactly the managed
\* fields (so it keeps the primary key), and create and update schemas that
\* exclude the managed fields and the primary key.
C1_SchemasOfEveryGroup ==
    package = "crudapi" =>
        \A i \in 1..Len(routers) :
            /\ routers[i].schema = ModelFields \ ManagedFields
            /\ pk_field \in routers[i].schema
            /\ routers[i].create_schema = ModelFields \ (ManagedFields \cup {pk_field})
            /\ routers[i].update_schema = ModelFields \ (ManagedFields \cup {pk_field})

\* C2: once Create has answered 200, its record carries the primary key, and
\* Get One on that key answers 200 with a record equal to the payload on
\* every field of the payload.
C2_CreateThenGetOne ==
    \A q \in Reqs :
        (req[q].op = "create" /\ req[q].pc = "returned" /\ req[q].status = 200) =>
            /\ pk_field \in DOMAIN req[q].body
            /\ LET g == LaterGetOne(table, req[q].body[pk_field])
               IN  /\ g.status = 200
                   /\ \A f \in DOMAIN req[q].payload :
                        f \in DOMAIN g.body /\ g.body[f] = req[q].payload[f]

\* a payload's fields all stand in the record, with the payload's values
Carries(record, payload) ==
    \A f \in DOMAIN payload : f \in DOMAIN record /\ record[f] = payload[f]

\* C3: Update One on an existing primary key, its commit accepted by the
\* storage, answers 200 and has changed the stored row: Get One on that key
\* then answers a record that has the payload's value in every payload field
\* and the same primary key.
C3_UpdateThenGetOne ==
    \A q \in Reqs :
        (/\ req[q].op = "update" /\ req[q].pc = "returned"
         /\ req[q].status # 404
         /\ ~(req[q].status = 500 /\ req[q].body = OperationalError)) =>
            /\ req[q].status = 200
            /\ LET g == LaterGetOne(table, req[q].pk)
               IN  /\ g.status = 200
                   /\ Carries(g.body, req[q].payload)
                   /\ pk_field \in DOMAIN g.body
                   /\ g.body[pk_field] = req[q].pk

\* C4: after Delete One has answered 200 for a primary key and its request
\* has ended, the row is gone: Get One on that key answers 404.
C4_DeleteOneThenGetOne ==
    [][\A q \in Reqs :
          (/\ req[q].op = "delete_one" /\ req[q].pc = "returned"
           /\ req[q].status = 200
           /\ req'[q].pc = "idle") =>
              LaterGetOne(table', req[q].pk).status = 404]_vars

\* C5: Delete All answers the empty sequence, and once its request has ended
\* a List with skip=0 and no limit answers the empty sequence; a List on an
\* empty table answers 200 with the empty sequence.
C5_DeleteAllThenList ==
    [][/\ \A q \in Reqs :
            (/\ req[q].op = "delete_all" /\ req[q].pc = "returned"
             /\ req[q].status = 200
             /\ req'[q].pc = "idle") =>
                /\ req[q].body = <<>>
                /\ get_all(table', Router.schema, 0, None) = <<>>
       /\ \A q \in Reqs :
            (/\ req[q].op = "list" /\ req[q].pc = "entered"
             /\ req'[q].pc = "returned"
             /\ DOMAIN View(q) = {}) =>
                (req'[q].status = 200 /\ req'[q].body = <<>>)]_vars

\* C10: of two Update One requests in flight on the same existing row, the
\* one whose commit comes second leaves its payload's values in the stored
\* row, and neither is turned down.
C10_LastWriterWins ==
    [][\A q \in Reqs, o \in Reqs :
          (/\ q # o
           /\ req[q].op = "update" /\ req[o].op = "update"
           /\ req[q].pk = req[o].pk
           /\ req[q].pk \in DOMAIN table
           /\ req[o].pc \in {"refresh", "returned"}
           /\ req[o].status \in {0, 200}
           /\ req[q].pc = "commit" /\ req'[q].pc = "refresh") =>
              /\ req[q].pk \in DOMAIN table'
              /\ Carries(table'[req[q].pk], req[q].payload)]_vars

\* C6: the validator's outcome is decided by skip, limit and max_limit: a
\* negative skip is a 422 on the query field skip; otherwise a limit that is
\* not positive, or above the ceiling, is a 422 on the query field limit;
\* otherwise the call returns the given skip and limit (limit defaulting to
\* max_limit, None meaning unbounded), unchanged. Every success has skip >= 0
\* and limit None or positive.
C6_Pagination ==
    page_out.status # 0 =>
        LET skip == IF page_in.query.skip = None THEN 0 ELSE Val(page_in.query.skip)
            ceiling == page_in.max_limit
            limit == IF page_in.query.limit = None THEN ceiling ELSE page_in.query.limit
            bad_limit == /\ limit # None
                         /\ \/ Val(limit) <= 0
                            \/ ceiling # None /\ Val(limit) > Val(ceiling)
        IN  /\ page_out.status \in {200, 422}
            /\ skip < 0 =>
                 page_out.status = 422 /\ page_out.detail.loc = <<"query", "skip">>
            /\ (skip >= 0 /\ bad_limit) =>
                 page_out.status = 422 /\ page_out.detail.loc = <<"query", "limit">>
            /\ (skip >= 0 /\ ~bad_limit) =>
                 /\ page_out.status = 200
                 /\ page_out.value = [skip |-> skip, limit |-> limit]
            /\ page_out.status = 200 =>
                 /\ page_out.value.skip >= 0
                 /\ page_out.value.limit = None \/ Val(page_out.value.limit) > 0

\* a limit above the ceiling has been turned down
C6_Witness ==
    /\ page_out.status = 422
    /\ page_out.detail.loc = <<"query", "limit">>
    /\ page_in.max_limit # None /\ page_in.query.limit # None
    /\ Val(page_in.query.limit) > Val(page_in.max_limit)
    /\ page_in.query.skip # None /\ Val(page_in.query.skip) > 0

\* C7: the commit of an Update One leaves the table that one run of Update
\* One makes of the table before it, and running Update One once more with
\* the same key and payload leaves that table as it is.
C7_UpdateIdempotent ==
    [][\A q \in Reqs :
          (req[q].op = "update" /\ req[q].pc = "commit" /\ req'[q].pc = "refresh") =>
              /\ table' = update_effect(table, req[q].pk, req[q].payload)
              /\ update_effect(table', req[q].pk, req[q].payload) = table']_vars

\* an Update One has committed its payload into a stored row
C7_Witness ==
    \E q \in Reqs :
        /\ req[q].op = "update" /\ req[q].pc = "refresh" /\ req[q].attached
        /\ req[q].pk \in DOMAIN table
        /\ req[q].payload["name"] = "Lovelace"
        /\ Carries(table[req[q].pk], req[q].payload)

\* the 404 detail of each registered model, written out
ExpectedNotFound ==
    IF Router.name = <<"U", "s", "e", "r">>
    THEN <<"u", "s", "e", "r", " ", "n", "o", "t", " ", "f", "o", "u", "n", "d">>
    ELSE <<"a", "p", "i", "k", "e", "y", " ", "n", "o", "t", " ", "f", "o", "u", "n", "d">>

ByKey == {"get_one", "update", "delete_one"}

\* C8: Get One, Update One and Delete One on a primary key that matches no
\* row answer 404 with the detail "<model name, lowercased> not found", and
\* neither the route nor the end of the request changes the table.
C8_NotFound ==
    [][\A q \in Reqs :
          /\ (/\ req[q].op \in ByKey /\ req[q].pc = "entered"
              /\ req[q].pk \notin DOMAIN table
              /\ req'[q].pc \notin {"entered", "idle"}) =>
                 /\ req'[q].pc = "returned"
                 /\ req'[q].status = 404
                 /\ req'[q].body = ExpectedNotFound
                 /\ table' = table
                 /\ pending' = pending
          /\ (/\ req[q].op \in ByKey /\ req[q].pc = "returned"
              /\ req[q].status = 404
              /\ req'[q].pc = "idle") =>
                 table' = table]_vars

\* Update One has answered 404 for a key that matches no row of a table
\* that holds other rows
C8_Witness ==
    \E q \in Reqs :
        /\ req[q].op = "update" /\ req[q].pc = "returned"
        /\ req[q].status = 404
        /\ req[q].pk \notin DOMAIN table
        /\ table # <<>>

\* a task's session is open from the entry of its route to the teardown,
\* and never outside
SessionScoped(q) ==
    /\ req[q].pc \in {"entered", "commit", "refresh", "remaining"} => q \in open
    /\ (req[q].pc = "returned" /\ req[q].status # 422) => q \in open
    /\ req[q].pc = "idle" => (q \notin open /\ pending[q] = {})
    /\ q \notin open => pending[q] = {}

Rank(tbl, uuid) == Cardinality({k \in DOMAIN tbl : k <= uuid})

\* how many records a List of tbl has to return
Kept(tbl, skip, limit) ==
    LET rest == IF Cardinality(DOMAIN tbl) > skip
                THEN Cardinality(DOMAIN tbl) - skip ELSE 0
    IN  IF limit # None /\ Val(limit) < rest THEN Val(limit) ELSE rest

\* body is tbl's rows in ascending order of the key, without the first skip
\* of them and cut after limit of them, each as a record of the Route
\* Group's read schema
Listed(body, tbl, skip, limit) ==
    /\ Len(body) = Kept(tbl, skip, limit)
    /\ \A i \in 1..Len(body) :
           \E k \in DOMAIN tbl :
               /\ Rank(tbl, k) = skip + i
               /\ body[i] = Project(tbl[k], Router.schema)

\* C11: for every table and every valid pagination request {skip, limit},
\* List answers 200 with the table's rows in ascending order of the primary
\* key, the first skip rows dropped and at most limit rows kept (all the
\* remaining rows when limit is null); no step of a List request changes the
\* table, so the sequence it returned is the one a List repeated on the table
\* it leaves behind returns.
C11_ListOrderedPage ==
    [][\A q \in Reqs :
           (req[q].op = "list" /\ req[q].pc \in {"entered", "returned"} /\ req'[q] # req[q])
               => /\ table' = table
                  /\ (req[q].pc = "entered" /\ req'[q].pc = "returned")
                         => /\ req'[q].status = 200
                            /\ Listed(req'[q].body, table, req[q].skip, req[q].limit)
                  /\ (req[q].pc = "returned" /\ req[q].status = 200)
                         => req[q].body =
                                get_all(table', Router.schema, req[q].skip, req[q].limit)]_vars

\* a List that had a row to skip and a row to cut off has returned the one
\* row between them
C11_Witness ==
    \E q \in Reqs :
        /\ req[q].op = "list" /\ req[q].pc = "returned" /\ req[q].status = 200
        /\ req[q].skip = 1 /\ req[q].limit = Some(1)
        /\ Cardinality(DOMAIN table) = MaxRows
        /\ Len(req[q].body) = 1
        /\ req[q].body[1].name = table[2].name

====
